---- MODULE Spec2Model ----
(***************************************************************************)
(* The Flask binding of connexion: connexion/apis/flask_api.py.            *)
(*                                                                         *)
(* FlaskApi translates between Flask requests / responses and connexion's  *)
(* canonical ConnexionRequest / ConnexionResponse; FlaskOperation is the   *)
(* per-route adapter whose __call__ serves one request.                    *)
(*                                                                         *)
(* Python values are modelled as follows.                                  *)
(*   - An optional value is a set: None is {} and a present value v is {v}.*)
(*   - A mimetype is [type, subtype] with the subtype split at "+"; a      *)
(*     content type adds its parameter string.                             *)
(*   - Byte strings, texts and decoded documents are strings.              *)
(*   - A header mapping is a set of <<name, value>> pairs.                 *)
(*                                                                         *)
(* What FlaskApi calls but does not define is modelled by its contract:    *)
(* AbstractAPI._get_response and _prepare_body_and_status_code, the        *)
(* ConnexionRequest accessors and is_json_mimetype as the design describes *)
(* them; flask.Response (get_data, is_streamed, mimetype, the constructor) *)
(* and make_response as Flask and werkzeug behave.                         *)
(***************************************************************************)
EXTENDS Integers, Sequences, FiniteSets, TLC

VARIABLES adapter, ctor, pc, decorator, request, req_body, handler_ret, canonical, framework

vars == <<adapter, ctor, pc, decorator, request, req_body, handler_ret, canonical, framework>>

----------------------------------------------------------------------------
(* Optional values and Python truthiness                                   *)

None == {}

Some(v) == {v}

Get(o) == CHOOSE v \in o : TRUE

----------------------------------------------------------------------------
(* Mimetypes and content types                                             *)

Mimetype(type, subtype) == [type |-> type, subtype |-> subtype]

ContentType(type, subtype, params) == [type |-> type, subtype |-> subtype, params |-> params]

\* The empty string, as a mimetype value.
EmptyMimetype == Mimetype("", <<>>)

JsonMimetype == Mimetype("application", <<"json">>)

ProblemJsonMimetype == Mimetype("application", <<"problem", "json">>)

TextPlainMimetype == Mimetype("text", <<"plain">>)

TextJsonMimetype == Mimetype("text", <<"json">>)

UrlEncodedMimetype == Mimetype("application", <<"x-www-form-urlencoded">>)

MultipartMimetype == Mimetype("multipart", <<"form-data">>)

OctetStreamMimetype == Mimetype("application", <<"octet-stream">>)

\* The part of a content type before its parameters.
MimetypeOf(ct) == Mimetype(ct.type, ct.subtype)

WithParams(mt, params) == ContentType(mt.type, mt.subtype, params)

\* Python's `x or y` on optional mimetypes: None and "" are falsy.
Truthy(o) == o # None /\ o # Some(EmptyMimetype)

Or(a, b) == IF Truthy(a) THEN a ELSE b

----------------------------------------------------------------------------
(* Requests: the ConnexionRequest handed to FlaskApi.get_body              *)

\* connexion.utils.is_json_mimetype: "the content type indicates JSON".
is_json_mimetype(content_type) ==
    /\ content_type # None
    /\ Get(content_type).type = "application"
    /\ Len(Get(content_type).subtype) >= 1
    /\ Get(content_type).subtype[Len(Get(content_type).subtype)] = "json"

\* connexion.http_facts.FORM_CONTENT_TYPES: the recognized form-encoded types.
FORM_CONTENT_TYPES == {UrlEncodedMimetype, MultipartMimetype}

\* request.mimetype: the content type without parameters, "" when there is none.
RequestMimetype(req) ==
    IF req.content_type = None THEN EmptyMimetype ELSE MimetypeOf(Get(req.content_type))

RawBodies == {"", "not json", "{\"a\": 1}", "a=1&b=2"}

\* JSON decoding of a raw body: the byte strings that parse, and their documents.
JsonParses(raw) == raw = "{\"a\": 1}"

JsonLoads(raw) == IF raw = "{\"a\": 1}" THEN "{a: 1}" ELSE ""

\* Form decoding of a raw body into field pairs.
FormFields(raw) ==
    CASE raw = "" -> {}
      [] raw = "a=1&b=2" -> {<<"a", "1">>, <<"b", "2">>}
      [] OTHER -> {<<raw, "">>}

\* A value extracted from a request (or an error raised instead).
Extracted(kind, val, form) == [kind |-> kind, val |-> val, form |-> form]

Null == Extracted("null", "", {})

\* request.get_json(silent): the decoded document; on a parse failure null when
\* silent, and an error otherwise.
get_json(req, silent) ==
    IF JsonParses(req.data) THEN Extracted("json", JsonLoads(req.data), {})
    ELSE IF silent THEN Null
    ELSE Extracted("error", "BadRequest", {})

\* request.form
form(req) == Extracted("form", "", FormFields(req.data))

\* request.get_data() or None
get_data_or_none(req) == IF req.data = "" THEN Null ELSE Extracted("bytes", req.data, {})

\* get_body with a strict JSON decode (silent dropped).
get_body_not_silent(req) ==
    IF is_json_mimetype(req.content_type) THEN get_json(req, FALSE)
    ELSE IF RequestMimetype(req) \in FORM_CONTENT_TYPES THEN form(req)
    ELSE get_data_or_none(req)

\* get_body returning request.get_data() as it is (`or None` dropped).
get_body_raw_bytes(req) ==
    IF is_json_mimetype(req.content_type) THEN get_json(req, TRUE)
    ELSE IF RequestMimetype(req) \in FORM_CONTENT_TYPES THEN form(req)
    ELSE Extracted("bytes", req.data, {})

\* FlaskApi.get_body
get_body(req) ==
    IF is_json_mimetype(req.content_type) THEN get_json(req, TRUE)
    ELSE IF RequestMimetype(req) \in FORM_CONTENT_TYPES THEN form(req)
    ELSE get_data_or_none(req)

RequestContentTypes ==
    {None, Some(WithParams(JsonMimetype, "charset=utf-8"))} \cup
    { Some(WithParams(m, "")) :
        m \in {JsonMimetype, ProblemJsonMimetype, TextJsonMimetype, UrlEncodedMimetype,
               MultipartMimetype, TextPlainMimetype, OctetStreamMimetype} }

----------------------------------------------------------------------------
(* Body values, header mappings                                            *)

Data(kind, val, resp) == [kind |-> kind, val |-> val, resp |-> resp]

NoData == Data("none", "", None)

Bytes(v) == Data("bytes", v, None)

Text(v) == Data("text", v, None)

Struct(v) == Data("struct", v, None)

Resp(fr) == Data("response", "", Some(fr))

\* A body as an optional value: Python's None is the body of kind "none".
OptData(d) == IF d.kind = "none" THEN None ELSE Some(d)

\* The jsonifier's encoding of a structured value.
JsonDumps(doc) == IF doc = "{a: 1}" THEN "{\"a\": 1}" ELSE "null"

\* dict.update on header mappings: the new pairs replace those of the same name.
UpdateHeaders(h, new) == {p \in h : \A q \in new : q[1] # p[1]} \cup new

----------------------------------------------------------------------------
(* flask.Response, as far as FlaskApi reads and builds it.  The Content-Type *)
(* header is the content_type field; headers holds the other headers.      *)

FlaskResponse(status_code, headers, content_type, data, is_sequence, direct_passthrough, isc) ==
    [status_code |-> status_code, headers |-> headers, content_type |-> content_type,
     data |-> data, is_sequence |-> is_sequence, direct_passthrough |-> direct_passthrough,
     implicit_sequence_conversion |-> isc]

\* response.mimetype: the Content-Type header without parameters, None without one.
ResponseMimetype(fr) ==
    IF fr.content_type = None THEN None ELSE Some(MimetypeOf(Get(fr.content_type)))

\* response.is_streamed: the body iterable has no length, i.e. is no sequence.
is_streamed(fr) == ~fr.is_sequence

\* response.get_data(): a sequence is joined; an iterable is first buffered into a
\* list (make_sequence), which direct passthrough and a disabled implicit
\* conversion refuse with a RuntimeError.
get_data(fr) ==
    IF fr.is_sequence THEN [raised |-> FALSE, data |-> fr.data, response |-> fr]
    ELSE IF fr.direct_passthrough \/ ~fr.implicit_sequence_conversion
         THEN [raised |-> TRUE, data |-> "", response |-> fr]
    ELSE [raised |-> FALSE, data |-> fr.data, response |-> [fr EXCEPT !.is_sequence = TRUE]]

DefaultStatus == 200

FlaskDefaultMimetype == Mimetype("text", <<"html">>)

\* werkzeug's get_content_type: text types get the charset parameter.
GetContentType(mt) == WithParams(mt, IF mt.type = "text" THEN "charset=utf-8" ELSE "")

\* flask.current_app.response_class(**kwargs): an argument that is absent (or
\* None) takes the framework default; content_type takes precedence over mimetype.
ResponseClass(kwargs) ==
    LET arg(k) == IF k \in DOMAIN kwargs THEN kwargs[k] ELSE None
        mt == IF arg("mimetype") = None THEN FlaskDefaultMimetype ELSE Get(arg("mimetype"))
    IN FlaskResponse(
         IF arg("status") = None THEN DefaultStatus ELSE Get(arg("status")),
         IF arg("headers") = None THEN {} ELSE Get(arg("headers")),
         IF arg("content_type") = None THEN Some(GetContentType(mt)) ELSE arg("content_type"),
         IF arg("response") = None THEN "" ELSE Get(arg("response")).val,
         TRUE, FALSE, TRUE)

\* flask.current_app.make_response((rv, status, headers)) for rv a response: the
\* status, when given, replaces rv's; the headers, when given, update rv's.
MakeResponse(rv, status, headers) ==
    [rv EXCEPT !.status_code = IF status = None THEN @ ELSE Get(status),
               !.headers = IF headers = None THEN @ ELSE UpdateHeaders(@, Get(headers))]

\* What _build_response hands to the framework, and the response it gets back.
Construct(call) ==
    IF call.call = "make_response" THEN MakeResponse(Get(call.rv), call.status, call.headers)
    ELSE ResponseClass(call.kwargs)

----------------------------------------------------------------------------
(* FlaskApi: canonical responses and the two conversions                   *)

ConnexionResponse(status_code, mimetype, content_type, headers, body, streamed) ==
    [status_code |-> status_code, mimetype |-> mimetype, content_type |-> content_type,
     headers |-> headers, body |-> body, is_streamed |-> streamed]

\* The outcome of a conversion to a canonical response: whether it raised, the
\* canonical response, the framework response it was read from (as the read left
\* it) and whether get_data was called on it.
Converted(raised, value, response, read) ==
    [raised |-> raised, value |-> value, response |-> response, read |-> read]

Raised == Converted(TRUE, ConnexionResponse(None, None, None, None, NoData, FALSE), None, FALSE)

\* FlaskApi._is_framework_response
_is_framework_response(data) == data.kind = "response"

\* _framework_to_connexion_response reading is_streamed before the body.
_framework_to_connexion_response_flag_first(response, mimetype) ==
    LET read == ~response.direct_passthrough
        got == get_data(response)
    IN IF read /\ got.raised THEN Raised
       ELSE Converted(FALSE,
              ConnexionResponse(Some(response.status_code), ResponseMimetype(response),
                                response.content_type, Some(response.headers),
                                IF read THEN Bytes(got.data) ELSE NoData,
                                is_streamed(response)),
              Some(IF read THEN got.response ELSE response), read)

\* FlaskApi._framework_to_connexion_response.  The keyword arguments are
\* evaluated in order: the body is read (unless direct_passthrough) before
\* is_streamed is.
_framework_to_connexion_response(response, mimetype) ==
    LET read == ~response.direct_passthrough
        got == get_data(response)
        after == IF read THEN got.response ELSE response
    IN IF read /\ got.raised THEN Raised
       ELSE Converted(FALSE,
              ConnexionResponse(Some(response.status_code), ResponseMimetype(response),
                                response.content_type, Some(response.headers),
                                IF read THEN Bytes(got.data) ELSE NoData,
                                is_streamed(after)),
              Some(after), read)

\* AbstractAPI._prepare_body_and_status_code: text and bytes pass through, a
\* structured value is JSON-encoded with mimetype application/json unless one
\* was supplied; an unset status is 200.
_prepare_body_and_status_code(data, mimetype, status_code) ==
    [data |-> IF data.kind = "struct" THEN Text(JsonDumps(data.val)) ELSE data,
     status_code |-> IF status_code = None THEN Some(DefaultStatus) ELSE status_code,
     mimetype |-> IF data.kind = "struct" /\ mimetype = None THEN Some(JsonMimetype)
                  ELSE mimetype]

\* The keyword arguments of _build_response's constructor call before filtering.
ResponseKwargs(mimetype, content_type, headers, status_code, data) ==
    LET p == _prepare_body_and_status_code(data, mimetype, status_code)
    IN [mimetype |-> Or(mimetype, p.mimetype), content_type |-> content_type,
        headers |-> headers, response |-> OptData(p.data), status |-> p.status_code]

MakeResponseCall(rv, status, headers) ==
    [call |-> "make_response", rv |-> Some(rv), status |-> status, headers |-> headers,
     kwargs |-> <<>>, serialized |-> FALSE]

ResponseClassCall(kwargs) ==
    [call |-> "response_class", rv |-> None, status |-> None, headers |-> None,
     kwargs |-> kwargs, serialized |-> TRUE]

\* _build_response passing every keyword argument, None included.
_build_response_unfiltered(mimetype, content_type, headers, status_code, data) ==
    IF _is_framework_response(data)
    THEN MakeResponseCall(Get(data.resp), status_code, headers)
    ELSE ResponseClassCall(ResponseKwargs(mimetype, content_type, headers, status_code, data))

\* _build_response dropping the status override on the pass-through path.
_build_response_no_status(mimetype, content_type, headers, status_code, data) ==
    IF _is_framework_response(data)
    THEN MakeResponseCall(Get(data.resp), None, headers)
    ELSE LET kw == ResponseKwargs(mimetype, content_type, headers, status_code, data)
         IN ResponseClassCall([k \in {j \in DOMAIN kw : kw[j] # None} |-> kw[k]])

\* FlaskApi._build_response: the call it makes on the framework.
_build_response(mimetype, content_type, headers, status_code, data) ==
    IF _is_framework_response(data)
    THEN MakeResponseCall(Get(data.resp), status_code, headers)
    ELSE LET kw == ResponseKwargs(mimetype, content_type, headers, status_code, data)
         IN ResponseClassCall([k \in {j \in DOMAIN kw : kw[j] # None} |-> kw[k]])

\* _connexion_to_framework_response preferring the default mimetype.
_connexion_to_framework_response_default_first(response, mimetype) ==
    _build_response(Or(mimetype, response.mimetype), response.content_type,
                    response.headers, response.status_code, response.body)

\* _connexion_to_framework_response leaving the status code out.
_connexion_to_framework_response_no_status(response, mimetype) ==
    _build_response(Or(response.mimetype, mimetype), response.content_type,
                    response.headers, None, response.body)

\* FlaskApi._connexion_to_framework_response
_connexion_to_framework_response(response, mimetype) ==
    _build_response(Or(response.mimetype, mimetype), response.content_type,
                    response.headers, response.status_code, response.body)

----------------------------------------------------------------------------
(* Handler return values and get_response                                  *)

\* One element of a handler's return value: an integer, a mapping or a body.
Item(ty, int, map, data) == [ty |-> ty, int |-> int, map |-> map, data |-> data]

IntItem(n) == Item("int", n, {}, NoData)

MapItem(h) == Item("map", 0, h, NoData)

DataItem(d) == Item("data", 0, {}, d)

\* A handler's return value: a bare value (is_tuple false, one item) or a tuple.
Bare(d) == [is_tuple |-> FALSE, items |-> <<DataItem(d)>>]

Tuple(items) == [is_tuple |-> TRUE, items |-> items]

Unpacked(raised, data, status_code, headers) ==
    [raised |-> raised, data |-> data, status_code |-> status_code, headers |-> headers]

\* Unpacking by arity, with the status of a 2-tuple taken for its headers.
UnpackHeadersAsStatus(ret) ==
    LET it == ret.items
        n == Len(it)
    IN CASE ~ret.is_tuple \/ n = 1 -> Unpacked(FALSE, it[1].data, None, None)
         [] ret.is_tuple /\ n = 2 /\ it[2].ty = "int" -> Unpacked(FALSE, it[1].data, None, Some({}))
         [] ret.is_tuple /\ n = 2 /\ it[2].ty = "map" -> Unpacked(FALSE, it[1].data, None, Some(it[2].map))
         [] ret.is_tuple /\ n = 3 -> Unpacked(FALSE, it[1].data, Some(it[2].int), Some(it[3].map))
         [] OTHER -> Unpacked(TRUE, NoData, None, None)

\* Unpacking a handler's return value by tuple arity: one element is the body;
\* two are (body, status) or (body, headers) by the type of the second; three are
\* (body, status, headers) in this order; anything else is an error.
Unpack(ret) ==
    LET it == ret.items
        n == Len(it)
    IN CASE ~ret.is_tuple \/ n = 1 -> Unpacked(FALSE, it[1].data, None, None)
         [] ret.is_tuple /\ n = 2 /\ it[2].ty = "int" -> Unpacked(FALSE, it[1].data, Some(it[2].int), None)
         [] ret.is_tuple /\ n = 2 /\ it[2].ty = "map" -> Unpacked(FALSE, it[1].data, None, Some(it[2].map))
         [] ret.is_tuple /\ n = 3 -> Unpacked(FALSE, it[1].data, Some(it[2].int), Some(it[3].map))
         [] OTHER -> Unpacked(TRUE, NoData, None, None)

\* AbstractAPI._get_response, reached through FlaskApi.get_response: a framework
\* response (bare, or the first element of a tuple whose status and headers then
\* override its own) is copied into a canonical response; any other value is
\* unpacked, serialized and given status 200 and empty headers where unset.
_get_response(ret, mimetype) ==
    LET u == Unpack(ret)
    IN IF u.raised THEN Raised
       ELSE IF _is_framework_response(u.data)
       THEN _framework_to_connexion_response(
              Construct(_build_response(mimetype, None, u.headers, u.status_code, u.data)),
              mimetype)
       ELSE LET p == _prepare_body_and_status_code(u.data, mimetype, u.status_code)
            IN Converted(FALSE,
                 ConnexionResponse(p.status_code, p.mimetype, None,
                                   IF u.headers = None THEN Some({}) ELSE u.headers,
                                   p.data, FALSE),
                 None, FALSE)

\* FlaskApi.get_response
get_response(ret, mimetype) == _get_response(ret, mimetype)

\* build_response: the canonical response as a framework response, with the call
\* that produced it.
Built(call) == [call |-> call, response |-> Construct(call)]

build_response(cr, mimetype) == Built(_connexion_to_framework_response(cr, mimetype))

----------------------------------------------------------------------------
(* FlaskOperation: the per-route adapter                                   *)

NumThreads == 2

Threads == 1 .. NumThreads

\* The operations a route can be registered for.
Operations ==
    { [function |-> "get_pet", uri_parser_class |-> "OpenAPIURIParser", api |-> "FlaskApi",
       mimetype |-> Some(JsonMimetype), operation_id |-> "getPet"],
      [function |-> "get_text", uri_parser_class |-> "Swagger2URIParser", api |-> "FlaskApi",
       mimetype |-> Some(TextPlainMimetype), operation_id |-> "getText"],
      [function |-> "get_any", uri_parser_class |-> "OpenAPIURIParser", api |-> "FlaskApi",
       mimetype |-> None, operation_id |-> "getAny"] }

\* FlaskOperation.__init__
FlaskOperation(operation, fn, uri_parser_class, api, mimetype, operation_id, pythonic_params) ==
    [_operation |-> operation, _fn |-> fn, uri_parser_class |-> uri_parser_class, api |-> api,
     mimetype |-> mimetype, operation_id |-> operation_id, pythonic_params |-> pythonic_params]

\* FlaskOperation.from_operation
from_operation(operation, pythonic_params) ==
    FlaskOperation(operation, operation.function, operation.uri_parser_class, operation.api,
                   operation.mimetype, operation.operation_id, pythonic_params)

\* SyncDecorator(...)(fn): the decorated handler, holding what it was built from.
SyncDecorator(operation, uri_parser_cls, framework_, parameter, response, pythonic_params, function) ==
    [operation |-> operation, uri_parser_cls |-> uri_parser_cls, framework |-> framework_,
     parameter |-> parameter, response |-> response, pythonic_params |-> pythonic_params,
     function |-> function]

\* The fn property caching the decorated handler in self._fn.
fn_cached(self) ==
    [self |-> [self EXCEPT !._fn = "decorated"],
     decorated |-> SyncDecorator(self._operation, self.uri_parser_class, self.api, TRUE, TRUE,
                                 self.pythonic_params, self._fn)]

\* FlaskOperation.fn: the adapter as the property leaves it, and the decorated
\* handler it returns.
fn(self) ==
    [self |-> self,
     decorated |-> SyncDecorator(self._operation, self.uri_parser_class, self.api, TRUE, TRUE,
                                 self.pythonic_params, self._fn)]

\* FlaskApi.get_request: the canonical request over the live framework request.
get_request(uri_parser, flask_request) ==
    [content_type |-> flask_request.content_type, data |-> flask_request.data,
     uri_parser |-> uri_parser]

----------------------------------------------------------------------------
(* Inputs                                                                  *)

JsonContentType == WithParams(JsonMimetype, "")

TextContentType == WithParams(TextPlainMimetype, "charset=utf-8")

FrameworkResponses ==
    [status_code : {200, 404}, headers : {{}, {<<"X-A", "0">>}},
     content_type : {None, Some(TextContentType)},
     data : {"", "abc"}, is_sequence : BOOLEAN, direct_passthrough : BOOLEAN,
     implicit_sequence_conversion : BOOLEAN]

PlainBodies == {NoData, Bytes(""), Bytes("abc"), Text("hello"), Struct("{a: 1}")}

\* The tuple shapes a body can be returned in, the malformed ones included.
Shapes(d) ==
    {Bare(d), Tuple(<<DataItem(d)>>)}
    \cup {Tuple(<<DataItem(d), IntItem(n)>>) : n \in {201, 404}}
    \cup {Tuple(<<DataItem(d), MapItem(h)>>) : h \in {{}, {<<"X-A", "1">>}}}
    \cup {Tuple(<<DataItem(d), IntItem(404), MapItem({<<"X-B", "2">>})>>)}

BadShapes(d) ==
    {Tuple(<<DataItem(d), DataItem(Text("201"))>>),
     Tuple(<<DataItem(d), IntItem(404), MapItem({}), MapItem({})>>)}

HandlerReturns ==
    UNION {Shapes(d) \cup BadShapes(d) : d \in PlainBodies}
    \cup UNION {Shapes(Resp(fr)) : fr \in FrameworkResponses}

\* The canonical responses a handler can build itself: a streamed one has no body.
CanonicalResponses ==
    LET fields == [status_code : {None, Some(201)},
                   mimetype : {None, Some(EmptyMimetype), Some(JsonMimetype), Some(TextPlainMimetype)},
                   content_type : {None, Some(JsonContentType), Some(TextContentType)},
                   headers : {None, Some({<<"X-A", "1">>})},
                   body : {NoData, Bytes("abc"), Text("hello"), Struct("{a: 1}"),
                           Resp(FlaskResponse(404, {<<"X-A", "0">>}, Some(TextContentType),
                                              "abc", TRUE, FALSE, TRUE))},
                   is_streamed : BOOLEAN]
    IN {cr \in fields : cr.is_streamed => cr.body = NoData}

\* The live framework requests.
FlaskRequests == [content_type : RequestContentTypes, data : RawBodies]

\* The few inputs the concurrent specification runs on.
ConcRequests ==
    {[content_type |-> Some(JsonContentType), data |-> "not json"],
     [content_type |-> None, data |-> ""]}

ConcReturns ==
    {Bare(Struct("{a: 1}")),
     Tuple(<<DataItem(Resp(FlaskResponse(200, {}, Some(JsonContentType), "abc", FALSE, FALSE, TRUE))),
             IntItem(404)>>)}

ConcCanonicals ==
    {ConnexionResponse(None, None, None, None, Struct("{a: 1}"), FALSE)}

----------------------------------------------------------------------------
(* The state machine: invocations of one FlaskOperation                    *)

Init ==
    /\ \E op \in Operations, pp \in BOOLEAN :
          /\ ctor = [operation |-> op, pythonic_params |-> pp]
          /\ adapter = from_operation(op, pp)
    /\ pc = [t \in Threads |-> "idle"]
    /\ decorator = [t \in Threads |-> None]
    /\ request = [t \in Threads |-> None]
    /\ req_body = [t \in Threads |-> None]
    /\ handler_ret = [t \in Threads |-> None]
    /\ canonical = [t \in Threads |-> None]
    /\ framework = [t \in Threads |-> None]

\* FlaskOperation.__call__: self.fn builds the decorated handler, which is called
\* on the live request of this invocation.
Call(t, flask_request) ==
    /\ pc[t] = "idle"
    /\ LET f == fn(adapter)
       IN /\ adapter' = f.self
          /\ decorator' = [decorator EXCEPT ![t] = Some(f.decorated)]
          /\ request' = [request EXCEPT ![t] =
                           Some(get_request(f.decorated.uri_parser_cls, flask_request))]
    /\ pc' = [pc EXCEPT ![t] = "called"]
    /\ UNCHANGED <<ctor, req_body, handler_ret, canonical, framework>>

\* Parameter binding: the body is extracted from the canonical request.
BindParameters(t) ==
    /\ pc[t] = "called"
    /\ LET b == get_body(Get(request[t]))
       IN /\ req_body' = [req_body EXCEPT ![t] = Some(b)]
          /\ pc' = [pc EXCEPT ![t] = IF b.kind = "error" THEN "failed" ELSE "bound"]
    /\ UNCHANGED <<adapter, ctor, decorator, request, handler_ret, canonical, framework>>

\* The handler returns a value; the request and its body, its arguments, are
\* not read again.
HandlerReturns_(t, ret) ==
    /\ pc[t] = "bound"
    /\ handler_ret' = [handler_ret EXCEPT ![t] = Some(ret)]
    /\ request' = [request EXCEPT ![t] = None]
    /\ req_body' = [req_body EXCEPT ![t] = None]
    /\ pc' = [pc EXCEPT ![t] = "returned"]
    /\ UNCHANGED <<adapter, ctor, decorator, canonical, framework>>

\* The handler returns a canonical response it built itself, which needs no
\* normalization.
HandlerReturnsCanonical(t, cr) ==
    /\ pc[t] = "bound"
    /\ canonical' = [canonical EXCEPT ![t] = Some(Converted(FALSE, cr, None, FALSE))]
    /\ request' = [request EXCEPT ![t] = None]
    /\ req_body' = [req_body EXCEPT ![t] = None]
    /\ pc' = [pc EXCEPT ![t] = "normalized"]
    /\ UNCHANGED <<adapter, ctor, decorator, handler_ret, framework>>

\* Response coercion, first half: get_response with the adapter's mimetype.
GetResponse(t) ==
    /\ pc[t] = "returned"
    /\ LET c == get_response(Get(handler_ret[t]), Get(decorator[t]).operation.mimetype)
       IN /\ canonical' = [canonical EXCEPT ![t] = Some(c)]
          /\ pc' = [pc EXCEPT ![t] = IF c.raised THEN "failed" ELSE "normalized"]
    /\ UNCHANGED <<adapter, ctor, decorator, request, req_body, handler_ret, framework>>

\* Response coercion, second half: the canonical response becomes a framework
\* response.
BuildResponse(t) ==
    /\ pc[t] = "normalized"
    /\ framework' = [framework EXCEPT ![t] =
           Some(build_response(Get(canonical[t]).value, Get(decorator[t]).operation.mimetype))]
    /\ pc' = [pc EXCEPT ![t] = "built"]
    /\ UNCHANGED <<adapter, ctor, decorator, request, req_body, handler_ret, canonical>>

\* __call__ returns the response (or the error propagates); the invocation's
\* values are discarded.
Return(t) ==
    /\ pc[t] \in {"built", "failed"}
    /\ pc' = [pc EXCEPT ![t] = "idle"]
    /\ decorator' = [decorator EXCEPT ![t] = None]
    /\ request' = [request EXCEPT ![t] = None]
    /\ req_body' = [req_body EXCEPT ![t] = None]
    /\ handler_ret' = [handler_ret EXCEPT ![t] = None]
    /\ canonical' = [canonical EXCEPT ![t] = None]
    /\ framework' = [framework EXCEPT ![t] = None]
    /\ UNCHANGED <<adapter, ctor>>

\* One invocation at a time, over every input.
Next ==
    \/ \E r \in FlaskRequests : Call(1, r)
    \/ BindParameters(1)
    \/ \E ret \in HandlerReturns : HandlerReturns_(1, ret)
    \/ \E cr \in CanonicalResponses : HandlerReturnsCanonical(1, cr)
    \/ GetResponse(1)
    \/ BuildResponse(1)
    \/ Return(1)

Spec == Init /\ [][Next]_vars

\* Any number of invocations interleaved, over a few inputs.
NextConc ==
    \E t \in Threads :
        \/ \E r \in ConcRequests : Call(t, r)
        \/ BindParameters(t)
        \/ \E ret \in ConcReturns : HandlerReturns_(t, ret)
        \/ \E cr \in ConcCanonicals : HandlerReturnsCanonical(t, cr)
        \/ GetResponse(t)
        \/ BuildResponse(t)
        \/ Return(t)

SpecConc == Init /\ [][NextConc]_vars

----------------------------------------------------------------------------
(* Properties                                                              *)

\* What invocation t's handler returned as its body (the first element).
ReturnedBody(t) == Get(handler_ret[t]).items[1].data

\* The handler of invocation t returned a framework response, bare or in a tuple.
WrapsResponse(t) == handler_ret[t] # None /\ ReturnedBody(t).kind = "response"

\* That framework response, as the handler returned it.
Original(t) == Get(ReturnedBody(t).resp)

\* get_response of invocation t has produced a canonical response.
Normalized(t) == canonical[t] # None /\ ~Get(canonical[t]).raised

\* The default mimetype invocation t runs with.
DefaultMimetype(t) == Get(decorator[t]).operation.mimetype

\* C1: every canonical response converted from a framework response has a null
\* body if it is streamed, whatever the response's direct_passthrough and
\* is_streamed flags were.
C1_StreamedHasNoBody ==
    \A t \in Threads :
        (Normalized(t) /\ Get(canonical[t]).response # None)
            => (Get(canonical[t]).value.is_streamed => Get(canonical[t]).value.body = NoData)

\* A streamed response that is not direct-passthrough has been converted, and its
\* body read.
C1_Witness ==
    \E t \in Threads :
        /\ WrapsResponse(t) /\ Normalized(t)
        /\ is_streamed(Original(t)) /\ ~Original(t).direct_passthrough
        /\ Get(canonical[t]).value.body = Bytes("abc")

\* The request of invocation t has a JSON content type and a body that is no JSON.
MalformedJson(t) ==
    /\ request[t] # None
    /\ is_json_mimetype(Get(request[t]).content_type)
    /\ ~JsonParses(Get(request[t]).data)

\* C2: get_body on a request with a JSON content type and a raw body that is not
\* valid JSON returns null and does not end in an error.
C2_MalformedJsonIsNull ==
    \A t \in Threads :
        (MalformedJson(t) /\ pc[t] \in {"bound", "failed"})
            => (pc[t] = "bound" /\ req_body[t] = Some(Null))

C2_Witness ==
    \E t \in Threads :
        /\ MalformedJson(t) /\ Get(request[t]).data = "not json"
        /\ pc[t] = "bound" /\ req_body[t] = Some(Null)

\* C3: get_body takes one branch, in order: the JSON decode for a JSON content
\* type; else the form mapping for a form mimetype; else the raw bytes when
\* non-empty and null when empty.  The empty byte string is never returned.
C3_BranchOrder ==
    \A t \in Threads :
        (request[t] # None /\ req_body[t] # None) =>
            LET r == Get(request[t])
                b == Get(req_body[t])
                mt == IF r.content_type = None THEN EmptyMimetype
                      ELSE Mimetype(Get(r.content_type).type, Get(r.content_type).subtype)
            IN /\ b # Extracted("bytes", "", {})
               /\ IF is_json_mimetype(r.content_type)
                  THEN IF r.data = "{\"a\": 1}" THEN b = Extracted("json", "{a: 1}", {})
                       ELSE b = Null
                  ELSE IF mt \in {UrlEncodedMimetype, MultipartMimetype}
                  THEN b.kind = "form" /\ b.form = FormFields(r.data)
                  ELSE IF r.data # "" THEN b = Extracted("bytes", r.data, {})
                  ELSE b = Null

\* A request that is neither JSON nor a form and has no body yields null.
C3_Witness ==
    \E t \in Threads :
        /\ request[t] # None /\ req_body[t] = Some(Null)
        /\ Get(request[t]).content_type = Some(WithParams(TextPlainMimetype, ""))
        /\ Get(request[t]).data = ""

\* C4: a handler return that is no framework response is unpacked by arity: a
\* bare value or 1-tuple gives status 200 and empty headers; (body, int) that
\* status and empty headers; (body, mapping) those headers and status 200;
\* a 3-tuple (body, status, headers) positionally, whatever the body.
C4_UnpackByArity ==
    \A t \in Threads :
        (handler_ret[t] # None /\ canonical[t] # None /\ ~WrapsResponse(t)) =>
            LET ret == Get(handler_ret[t])
                it == ret.items
                c == Get(canonical[t])
                is(status, headers) ==
                    /\ ~c.raised
                    /\ c.value.status_code = Some(status)
                    /\ c.value.headers = Some(headers)
            IN /\ (~ret.is_tuple \/ Len(it) = 1) => is(200, {})
               /\ (ret.is_tuple /\ Len(it) = 2 /\ it[2].ty = "int") => is(it[2].int, {})
               /\ (ret.is_tuple /\ Len(it) = 2 /\ it[2].ty = "map") => is(200, it[2].map)
               /\ (ret.is_tuple /\ Len(it) = 3) => is(it[2].int, it[3].map)

\* A 3-tuple with a structured body has been normalized to its status and headers.
C4_Witness ==
    \E t \in Threads :
        /\ handler_ret[t] = Some(Tuple(<<DataItem(Struct("{a: 1}")), IntItem(404),
                                         MapItem({<<"X-B", "2">>})>>))
        /\ Normalized(t)
        /\ Get(canonical[t]).value.status_code = Some(404)
        /\ Get(canonical[t]).value.headers = Some({<<"X-B", "2">>})

\* The handler of invocation t returned a framework response in a tuple with an
\* explicit status.
WrapsWithStatus(t) ==
    /\ WrapsResponse(t)
    /\ Get(handler_ret[t]).is_tuple
    /\ Len(Get(handler_ret[t]).items) \in {2, 3}
    /\ Get(handler_ret[t]).items[2].ty = "int"

\* C5: a tuple wrapping a framework response with an explicit status yields a
\* framework response (and a canonical response) with the tuple's status, not
\* the wrapped response's.
C5_TupleStatusWins ==
    \A t \in Threads :
        (WrapsWithStatus(t) /\ Normalized(t)) =>
            LET s == Get(handler_ret[t]).items[2].int
            IN /\ Get(Get(canonical[t]).response).status_code = s
               /\ Get(canonical[t]).value.status_code = Some(s)
               /\ framework[t] # None => Get(framework[t]).response.status_code = s

C5_Witness ==
    \E t \in Threads :
        /\ WrapsWithStatus(t) /\ Normalized(t)
        /\ Original(t).status_code = 200
        /\ Get(handler_ret[t]).items[2].int = 201
        /\ framework[t] # None /\ Get(framework[t]).response.status_code = 201

\* The handler of invocation t returned a bare framework response, which has
\* gone through get_response and build_response.
RoundTripped(t) ==
    /\ WrapsResponse(t) /\ ~Get(handler_ret[t]).is_tuple
    /\ Normalized(t) /\ framework[t] # None

C7_AdapterImmutable ==
    adapter = [_operation |-> ctor.operation, _fn |-> ctor.operation.function,
               uri_parser_class |-> ctor.operation.uri_parser_class,
               api |-> ctor.operation.api, mimetype |-> ctor.operation.mimetype,
               operation_id |-> ctor.operation.operation_id,
               pythonic_params |-> ctor.pythonic_params]

\* Two invocations are in flight at once, one of them with its response built.
C7_Witness ==
    \E t, u \in Threads : t # u /\ pc[t] = "built" /\ pc[u] = "normalized"

\* The mimetype the caller supplied to invocation t: the canonical response's
\* own, else the default, else application/json.
SuppliedMimetype(t) ==
    LET own == Get(canonical[t]).value.mimetype
    IN IF own # None /\ own # Some(EmptyMimetype) THEN own
       ELSE IF DefaultMimetype(t) # None THEN DefaultMimetype(t)
       ELSE Some(JsonMimetype)

\* Invocation t has built a framework response from a structured body.
BuiltFromStruct(t) ==
    framework[t] # None /\ Get(canonical[t]).value.body.kind = "struct"

\* C8 as claimed: the mimetype of a response built from a structured body is the
\* supplied mimetype, and application/json when none was supplied.
C8_ResponseMimetype ==
    \A t \in Threads :
        BuiltFromStruct(t) =>
            ResponseMimetype(Get(framework[t]).response) = SuppliedMimetype(t)

\* C8 as amended: the mimetype argument of the constructor is the supplied
\* mimetype, and application/json when none was supplied; it is the response's
\* mimetype when the canonical response has no content type, and otherwise that
\* content type is the response's.
C8_MimetypeArgument ==
    \A t \in Threads :
        BuiltFromStruct(t) =>
            LET cr == Get(canonical[t]).value
                b == Get(framework[t])
            IN /\ b.call.kwargs["mimetype"] = SuppliedMimetype(t)
               /\ cr.content_type = None
                    => ResponseMimetype(b.response) = SuppliedMimetype(t)
               /\ cr.content_type # None => b.response.content_type = cr.content_type

\* A structured body with no mimetype supplied at all has been built as JSON.
C8_Witness ==
    \E t \in Threads :
        /\ BuiltFromStruct(t)
        /\ Get(canonical[t]).value.mimetype = None /\ DefaultMimetype(t) = None
        /\ Get(canonical[t]).value.content_type = None
        /\ Get(framework[t]).response.content_type = Some(JsonContentType)
        /\ JsonLoads(Get(framework[t]).response.data) = "{a: 1}"

\* C9 as claimed: the body of a framework response is read only when it is
\* neither direct-passthrough nor streamed.
C9_StreamedNeverRead ==
    \A t \in Threads :
        (WrapsResponse(t) /\ canonical[t] # None /\ Get(canonical[t]).read)
            => (~Original(t).direct_passthrough /\ ~is_streamed(Original(t)))

\* C10: build_response takes one of two paths: a framework response as body goes
\* to make_response with the status and headers and is not serialized; any other
\* body is serialized and the constructor gets exactly the non-null ones of
\* mimetype, content type, headers, body and status.
C10_TwoPaths ==
    \A t \in Threads :
        framework[t] # None =>
            LET cr == Get(canonical[t]).value
                call == Get(framework[t]).call
                kw == call.kwargs
                struct == cr.body.kind = "struct"
                supplied == (cr.mimetype # None /\ cr.mimetype # Some(EmptyMimetype))
                                \/ DefaultMimetype(t) # None
            IN IF cr.body.kind = "response"
               THEN /\ call.call = "make_response"
                    /\ call.rv = cr.body.resp
                    /\ call.status = cr.status_code
                    /\ call.headers = cr.headers
                    /\ ~call.serialized
               ELSE /\ call.call = "response_class"
                    /\ call.serialized
                    /\ DOMAIN kw \subseteq {"mimetype", "content_type", "headers", "response", "status"}
                    /\ \A k \in DOMAIN kw : kw[k] # None
                    /\ "mimetype" \in DOMAIN kw <=> (supplied \/ struct)
                    /\ "content_type" \in DOMAIN kw <=> cr.content_type # None
                    /\ "headers" \in DOMAIN kw <=> cr.headers # None
                    /\ "response" \in DOMAIN kw <=> cr.body.kind # "none"
                    /\ "status" \in DOMAIN kw
                    /\ cr.content_type # None => kw["content_type"] = cr.content_type
                    /\ cr.headers # None => kw["headers"] = cr.headers
                    /\ cr.status_code # None => kw["status"] = cr.status_code

\* A body with neither content type nor headers has been built: the constructor
\* got neither argument.
C10_Witness ==
    \E t \in Threads :
        /\ framework[t] # None
        /\ Get(canonical[t]).value.body = Text("hello")
        /\ Get(canonical[t]).value.content_type = None
        /\ Get(canonical[t]).value.headers = None
        /\ DOMAIN Get(framework[t]).call.kwargs = {"mimetype", "response", "status"}

====
